---- MODULE Spec2Model ----
(***************************************************************************)
(* Model of view.py (mnist-nengo): the result viewer for a static          *)
(* feed-forward classifier and for a spiking-network run.                  *)
(*                                                                         *)
(* Times are integers in milliseconds (0.01 s = 10, 1.0 s = 1000); a time  *)
(* of n ms stands for the double nearest to n / 1000 seconds, and the      *)
(* program's arithmetic on times is IEEE 754 double arithmetic, rounded to *)
(* nearest, ties to even.  A Python exception is an outcome record whose   *)
(* kind is the exception name.                                             *)
(* The interpreter and the numpy release decide what the code does and    *)
(* are not fixed by the repository; they are chosen in Init and never      *)
(* change:                                                                 *)
(*   build.py     2 or 3: round() rounds halves away from zero (2) or to   *)
(*                even (3); "/" on ints is floor (2) or true (3)           *)
(*   build.py37   CPython 3.7 or later: a traceback names the first line   *)
(*                of a statement that spans lines; before, the last line   *)
(*                evaluated                                                *)
(*   build.optimized  the interpreter runs with -O (or PYTHONOPTIMIZE):    *)
(*                assert statements are compiled away, none of their       *)
(*                expressions is evaluated                                 *)
(*   build.strict_subplot  matplotlib refuses a subplot index that is not  *)
(*                an integer (recent releases; the conversion with int()   *)
(*                was deprecated in 3.3); such a release needs CPython 3.7 *)
(*                and numpy 1.17 or later                                  *)
(*   build.numpy  the span of numpy releases, 0 to 4:                      *)
(*                0  before 1.12: a float slice index or array size is     *)
(*                   truncated towards zero (with a DeprecationWarning)    *)
(*                1  1.12: a float index or size is a TypeError            *)
(*                2  1.13 to 1.16.2: a boolean index of another length     *)
(*                   than the array is an IndexError                       *)
(*                3  1.16.3 to 1.24: np.load refuses pickled entries       *)
(*                   unless allow_pickle=True                              *)
(*                4  1.25 and later (CPython 3.9 on): == and != of arrays  *)
(*                   that do not broadcast raise instead of giving a       *)
(*                   scalar                                                *)
(***************************************************************************)
EXTENDS Integers, Naturals, Sequences, FiniteSets, TLC

VARIABLES build, sp_in, sp_out, st_in, st_out, vw_in, vw_out,
          main_in, pc, stdout, events, err, neuron_params

vars == <<build, sp_in, sp_out, st_in, st_out, vw_in, vw_out,
          main_in, pc, stdout, events, err, neuron_params>>

\* the variables of the entry point
main_vars == <<main_in, pc, stdout, events, err, neuron_params>>

\* the variables of the functions applied on their own
call_vars == <<sp_in, sp_out, st_in, st_out, vw_in, vw_out>>

----------------------------------------------------------------------------
(* Bounds of the model *)

\* longest correctness signal that is enumerated sample by sample
MaxLen == 4
\* most presentation windows of a patterned correctness signal
MaxWindows == 2
\* the doubles of the times 0, 10, ..., 10 * TabulatedSteps ms are tabulated
TabulatedSteps == 210

----------------------------------------------------------------------------
(* Program constants *)

\* check_time=0.05 (seconds), in milliseconds
DefaultCheckTimeMs == 50
\* cutoff=0.5 as the fraction CutoffNum / CutoffDen
CutoffNum == 1
CutoffDen == 2
\* max_pres=20
DefaultMaxPres == 20
\* max_neurons = 200
max_neurons == 200

----------------------------------------------------------------------------
(* Python and numpy primitives *)

Builds ==
    {b \in [py : {2, 3}, py37 : BOOLEAN, optimized : BOOLEAN,
             strict_subplot : BOOLEAN, numpy : 0..4] :
        /\ b.py37 => b.py = 3
        /\ b.numpy = 4 => b.py37
        /\ b.strict_subplot => (b.py37 /\ b.numpy >= 3)}

\* the builds that differ in more than the line a traceback names and in
\* what is plotted
BuildsByBehaviour == {b \in Builds : b.py37 = (b.py = 3) /\ ~b.strict_subplot}

\* and of these the builds a function without assert statements tells apart
BuildsByArithmetic == {b \in BuildsByBehaviour : ~b.optimized}

\* numpy >= 1.12: a float where an integer index or size is needed is refused
FloatIndexRejected(bld) == bld.numpy >= 1
\* numpy >= 1.13: a boolean index must have the length of the indexed axis
MaskMismatchRejected(bld) == bld.numpy >= 2
\* numpy >= 1.16.3: allow_pickle defaults to False in np.load
PickleRefused(bld) == bld.numpy >= 3
\* numpy >= 1.25: comparing arrays that do not broadcast is a ValueError
CompareMismatchRaises(bld) == bld.numpy >= 4
\* plt.subplot(r, c, i) with the one-element array i is a ValueError
SubplotIndexRejected(bld) == bld.strict_subplot

Min(a, b) == IF a <= b THEN a ELSE b
Max(a, b) == IF a >= b THEN a ELSE b

\* the sum of s[lo..hi], by halves
RECURSIVE SumRange(_, _, _)
SumRange(s, lo, hi) ==
    IF lo > hi THEN 0
    ELSE IF lo = hi THEN s[lo]
    ELSE LET mid == (lo + hi) \div 2
         IN  SumRange(s, lo, mid) + SumRange(s, mid + 1, hi)

SumSeq(s) == SumRange(s, 1, Len(s))

----------------------------------------------------------------------------
(* Natural numbers beyond the machine word.  A number is the sequence of   *)
(* its digits in radix 2^15, least significant first, without leading      *)
(* zeros; zero is the empty sequence.                                      *)

Radix == 32768
RadixBits == 15

RECURSIVE Pow2(_)
Pow2(k) == IF k = 0 THEN 1 ELSE 2 * Pow2(k - 1)

RECURSIVE BitLen(_)
BitLen(n) == IF n = 0 THEN 0 ELSE 1 + BitLen(n \div 2)

RECURSIVE BigOf(_)
BigOf(n) == IF n = 0 THEN <<>> ELSE <<n % Radix>> \o BigOf(n \div Radix)

RECURSIVE BigToInt(_)
BigToInt(a) == IF a = <<>> THEN 0 ELSE Head(a) + Radix * BigToInt(Tail(a))

RECURSIVE BigTrim(_)
BigTrim(a) ==
    IF a # <<>> /\ a[Len(a)] = 0 THEN BigTrim(SubSeq(a, 1, Len(a) - 1)) ELSE a

Digit(a, i) == IF i <= Len(a) THEN a[i] ELSE 0

BigBitLen(a) ==
    IF a = <<>> THEN 0 ELSE RadixBits * (Len(a) - 1) + BitLen(a[Len(a)])

BigOdd(a) == a # <<>> /\ a[1] % 2 = 1

RECURSIVE BigAddFrom(_, _, _, _)
BigAddFrom(a, b, i, carry) ==
    IF i > Len(a) /\ i > Len(b) THEN (IF carry = 0 THEN <<>> ELSE <<carry>>)
    ELSE LET s == Digit(a, i) + Digit(b, i) + carry
         IN  <<s % Radix>> \o BigAddFrom(a, b, i + 1, s \div Radix)
BigAdd(a, b) == BigAddFrom(a, b, 1, 0)

\* a - b for a >= b
RECURSIVE BigSubFrom(_, _, _, _)
BigSubFrom(a, b, i, borrow) ==
    IF i > Len(a) THEN <<>>
    ELSE LET d == a[i] - Digit(b, i) - borrow
         IN  <<d % Radix>> \o BigSubFrom(a, b, i + 1, IF d < 0 THEN 1 ELSE 0)
BigSub(a, b) == BigTrim(BigSubFrom(a, b, 1, 0))

\* -1, 0 or 1 as a is below, equal to or above b
RECURSIVE BigCmpFrom(_, _, _)
BigCmpFrom(a, b, i) ==
    IF i = 0 THEN 0
    ELSE IF a[i] < b[i] THEN -1
    ELSE IF a[i] > b[i] THEN 1
    ELSE BigCmpFrom(a, b, i - 1)
BigCmp(a, b) ==
    IF Len(a) < Len(b) THEN -1
    ELSE IF Len(a) > Len(b) THEN 1
    ELSE BigCmpFrom(a, b, Len(a))

\* a * k for a single digit k
RECURSIVE BigMulSmallFrom(_, _, _, _)
BigMulSmallFrom(a, k, i, carry) ==
    IF i > Len(a) THEN (IF carry = 0 THEN <<>> ELSE <<carry>>)
    ELSE LET p == a[i] * k + carry
         IN  <<p % Radix>> \o BigMulSmallFrom(a, k, i + 1, p \div Radix)
BigMulSmall(a, k) == IF k = 0 THEN <<>> ELSE BigMulSmallFrom(a, k, 1, 0)

RECURSIVE BigMul(_, _)
BigMul(a, b) ==
    IF a = <<>> \/ b = <<>> THEN <<>>
    ELSE LET rest == BigMul(a, Tail(b))
         IN  BigAdd(BigMulSmall(a, Head(b)),
                    IF rest = <<>> THEN <<>> ELSE <<0>> \o rest)

\* a * 2^k
BigShl(a, k) ==
    IF a = <<>> THEN <<>>
    ELSE [i \in 1..(k \div RadixBits) |-> 0] \o BigMulSmall(a, Pow2(k % RadixBits))

\* a div k for a single digit k > 0
RECURSIVE BigDivSmallFrom(_, _, _, _)
BigDivSmallFrom(a, k, i, r) ==
    IF i = 0 THEN <<>>
    ELSE LET cur == r * Radix + a[i]
         IN  BigDivSmallFrom(a, k, i - 1, cur % k) \o <<cur \div k>>
BigDivSmall(a, k) == BigTrim(BigDivSmallFrom(a, k, Len(a), 0))

\* a div 2^k
BigShr(a, k) ==
    IF k \div RadixBits >= Len(a) THEN <<>>
    ELSE BigDivSmall(SubSeq(a, (k \div RadixBits) + 1, Len(a)), Pow2(k % RadixBits))

\* a mod 2^k
BigLow(a, k) == BigSub(a, BigShl(BigShr(a, k), k))

\* the digit g with q * g <= r < q * (g + 1), for r < q * Radix and q with a
\* leading digit of at least Radix / 2: the quotient est of the leading
\* digits is g, g + 1 or g + 2
QuotientDigitNear(r, q, est) ==
    IF BigCmp(BigMulSmall(q, est), r) <= 0 THEN est
    ELSE IF BigCmp(BigMulSmall(q, est - 1), r) <= 0 THEN est - 1
    ELSE est - 2
QuotientDigit(r, q) ==
    QuotientDigitNear(r, q,
        Min((Digit(r, Len(q) + 1) * Radix + Digit(r, Len(q))) \div q[Len(q)], Radix - 1))

\* long division from the leading digit p[i] down: quot holds the digits
\* found so far and rem what is left of the digits above p[i]
RECURSIVE BigDivModFrom(_, _, _, _, _)
BigDivModStep(p, q, i, quot, cur, g) ==
    BigDivModFrom(p, q, i - 1, <<g>> \o quot, BigSub(cur, BigMulSmall(q, g)))
BigDivModDigit(p, q, i, quot, cur) ==
    BigDivModStep(p, q, i, quot, cur, QuotientDigit(cur, q))
BigDivModFrom(p, q, i, quot, rem) ==
    IF i = 0 THEN <<BigTrim(quot), rem>>
    ELSE IF rem = <<>> /\ p[i] = 0 THEN BigDivModFrom(p, q, i - 1, <<0>> \o quot, <<>>)
    ELSE BigDivModDigit(p, q, i, quot, <<p[i]>> \o rem)

\* <<p div q, p mod q>> for p and q scaled by f
BigDivModUnscaled(dm, f) == <<dm[1], BigDivSmall(dm[2], f)>>
BigDivModScaled(p, q, f) ==
    BigDivModUnscaled(BigDivModFrom(p, q, Len(p), <<>>, <<>>), f)
BigDivModBy(p, q, f) == BigDivModScaled(BigMulSmall(p, f), BigMulSmall(q, f), f)

\* <<p div q, p mod q>> for q # 0, by long division after scaling both so
\* that the leading digit of q is at least Radix / 2
BigDivMod(p, q) == BigDivModBy(p, q, Pow2(RadixBits - BitLen(q[Len(q)])))

----------------------------------------------------------------------------
(* IEEE 754 doubles, the floats of Python and numpy.  A double is its sign, *)
(* its mantissa m (zero, or of exactly MantissaBits bits) and its exponent  *)
(* e: the number m * 2^e, negated when neg.  Infinities, NaN and            *)
(* subnormals are left out: a division by zero is decided before it.        *)

MantissaBits == 53

Zero == [neg |-> FALSE, m |-> <<>>, e |-> 0]

\* the double m * 2^e of a mantissa of MantissaBits bits, or of one bit more
\* after a carry
Renormalised(neg, m, e) ==
    IF BigBitLen(m) > MantissaBits
    THEN [neg |-> neg, m |-> BigShr(m, 1), e |-> e + 1]
    ELSE [neg |-> neg, m |-> m, e |-> e]

\* m0 kept or raised by one: c tells the dropped bits below (-1), at (0) or
\* above (1) a half, sticky a remainder below them; a tie goes to the even
\* mantissa
RoundedUp(neg, m0, c, sticky, e) ==
    Renormalised(neg,
                 IF c > 0 \/ (c = 0 /\ (sticky \/ BigOdd(m0)))
                 THEN BigAdd(m0, <<1>>) ELSE m0,
                 e)

\* n * 2^e rounded to MantissaBits bits by dropping its low drop bits
RoundedAt(neg, n, sticky, e, drop) ==
    RoundedUp(neg, BigShr(n, drop),
              BigCmp(BigLow(n, drop), BigShl(<<1>>, drop - 1)), sticky, e + drop)

\* dm[1] * 2^e, of one or two bits more than a mantissa, with the remainder
\* dm[2] below it
RoundedQuotient(neg, dm, e) ==
    RoundedAt(neg, dm[1], dm[2] # <<>>, e, BigBitLen(dm[1]) - MantissaBits)

\* (p / q) * 2^e with p or q shifted by |s| bits for a quotient of one or
\* two bits more than a mantissa
ScaledQuotient(neg, p, q, e, s) ==
    RoundedQuotient(neg,
                    BigDivMod(IF s < 0 THEN BigShl(p, -s) ELSE p,
                              IF s > 0 THEN BigShl(q, s) ELSE q),
                    e + s)

\* the double nearest to (p / q) * 2^e, ties to the even mantissa
DoubleOf(neg, p, q, e) ==
    IF p = <<>> \/ q = <<>> THEN Zero
    ELSE ScaledQuotient(neg, p, q, e,
                        BigBitLen(p) - BigBitLen(q) - (MantissaBits + 1))

\* the double of a time of ms milliseconds: the one nearest to ms / 1000
NearestDouble(ms) == DoubleOf(ms < 0, BigOf(IF ms < 0 THEN -ms ELSE ms), BigOf(1000), 0)
\* float(k) for a Python int k
FloatOfInt(k) == DoubleOf(k < 0, BigOf(IF k < 0 THEN -k ELSE k), <<1>>, 0)

\* x / y for y # 0
FDiv(x, y) == DoubleOf(x.neg # y.neg, x.m, y.m, x.e - y.e)
\* x * y
FMul(x, y) == DoubleOf(x.neg # y.neg, BigMul(x.m, y.m), <<1>>, x.e + y.e)

\* +-a - +-b for the whole numbers a and b of 2^e
SignedDifference(xneg, yneg, a, b, e) ==
    DoubleOf(IF xneg # yneg \/ BigCmp(a, b) >= 0 THEN xneg ELSE ~xneg,
             IF xneg # yneg THEN BigAdd(a, b)
             ELSE IF BigCmp(a, b) >= 0 THEN BigSub(a, b) ELSE BigSub(b, a),
             <<1>>, e)

\* x - y
FSub(x, y) ==
    SignedDifference(x.neg, y.neg, BigShl(x.m, x.e - Min(x.e, y.e)),
                     BigShl(y.m, y.e - Min(x.e, y.e)), Min(x.e, y.e))

\* -1, 0 or 1 as |x| is below, equal to or above |y|
FMagCmp(x, y) ==
    IF x.m = <<>> \/ y.m = <<>>
    THEN (IF x.m = y.m THEN 0 ELSE IF x.m = <<>> THEN -1 ELSE 1)
    ELSE IF x.e < y.e THEN -1
    ELSE IF x.e > y.e THEN 1
    ELSE BigCmp(x.m, y.m)

\* -1, 0 or 1 as x < y, x == y or x > y
FCmp(x, y) ==
    IF x.m = <<>> /\ y.m = <<>> THEN 0
    ELSE IF x.m = <<>> THEN (IF y.neg THEN 1 ELSE -1)
    ELSE IF y.m = <<>> THEN (IF x.neg THEN -1 ELSE 1)
    ELSE IF x.neg # y.neg THEN (IF x.neg THEN -1 ELSE 1)
    ELSE IF x.neg THEN FMagCmp(y, x) ELSE FMagCmp(x, y)

\* the whole part of |x| and the numerator of its fraction over 2^(-x.e)
FWhole(x) ==
    IF x.e >= 0 THEN BigToInt(BigShl(x.m, x.e)) ELSE BigToInt(BigShr(x.m, -x.e))
FPart(x) == IF x.e >= 0 THEN <<>> ELSE BigLow(x.m, -x.e)

\* int(x): towards zero
FTrunc(x) == IF x.neg THEN -FWhole(x) ELSE FWhole(x)

\* -1, 0 or 1 as the fraction of |x| is below, equal to or above a half
HalfCmp(x) == IF x.e >= 0 THEN -1 ELSE BigCmp(FPart(x), BigShl(<<1>>, -x.e - 1))

\* the whole number k or k + 1, as the fraction compares to a half
RoundedWhole(neg, k, c, py) ==
    IF c > 0 \/ (c = 0 /\ (py = 2 \/ k % 2 = 1))
    THEN (IF neg THEN -(k + 1) ELSE k + 1)
    ELSE (IF neg THEN -k ELSE k)

\* int(round(x)): a half goes away from zero under Python 2 and to the even
\* neighbour under Python 3
FRound(x, py) == RoundedWhole(x.neg, FWhole(x), HalfCmp(x), py)

\* int(ceil(x))
FCeil(x) ==
    IF x.neg THEN -FWhole(x)
    ELSE IF FPart(x) = <<>> THEN FWhole(x) ELSE FWhole(x) + 1

----------------------------------------------------------------------------
(* The doubles of the times the inputs are made of, and what the program   *)
(* computes from them, worked out once.  An argument outside a table is    *)
(* computed where it is used, to the same value.                           *)

TabulatedTimes == {10 * k : k \in 0..TabulatedSteps}
\* the sample intervals and presentation times of the inputs, and the first
\* two samples of their time axes
TabulatedPeriods == {0, 10, 20, 30, 40, 50, 1000}

SecondsTable == [ms \in TabulatedTimes |-> NearestDouble(ms)]

\* the double of a time of ms milliseconds
Seconds(ms) ==
    IF ms % 10 = 0 /\ (ms \div 10) \in 0..TabulatedSteps THEN SecondsTable[ms]
    ELSE NearestDouble(ms)

TabulatedDoubles == {SecondsTable[ms] : ms \in TabulatedTimes}
PeriodDoubles == {SecondsTable[ms] : ms \in TabulatedPeriods}

QuotientTable == [x \in TabulatedDoubles, y \in PeriodDoubles \ {Zero} |-> FDiv(x, y)]
DifferenceTable == [x \in PeriodDoubles, y \in PeriodDoubles |-> FSub(x, y)]
ProductTable == [k \in 0..DefaultMaxPres, y \in PeriodDoubles |-> FMul(FloatOfInt(k), y)]

\* x / y for y # 0
Quotient(x, y) ==
    IF x \in TabulatedDoubles /\ y \in PeriodDoubles \ {Zero} THEN QuotientTable[x, y]
    ELSE FDiv(x, y)

\* x - y
Difference(x, y) ==
    IF x \in PeriodDoubles /\ y \in PeriodDoubles THEN DifferenceTable[x, y]
    ELSE FSub(x, y)

\* k * y for a Python int k
Product(k, y) ==
    IF k \in 0..DefaultMaxPres /\ y \in PeriodDoubles THEN ProductTable[k, y]
    ELSE FMul(FloatOfInt(k), y)

----------------------------------------------------------------------------
(* Python and numpy primitives, continued *)

\* int(round(x / y)) for doubles x and y # 0
PyRound(x, y, py) == FRound(Quotient(x, y), py)

\* a[-k:] for a sequence a and an integer k >= 0 (a[-0:] is a[0:], all of a)
LastK(a, k) ==
    IF k = 0 \/ k >= Len(a) THEN a
    ELSE SubSeq(a, Len(a) - k + 1, Len(a))

\* a.reshape(-1, n): the rows of a flat signal, n >= 1, Len(a) % n = 0
Reshape(a, n) ==
    [w \in 1..(Len(a) \div n) |-> SubSeq(a, (w - 1) * n + 1, w * n)]

\* np.mean(block) < cutoff
MeanBelowCutoff(block) == SumSeq(block) * CutoffDen < CutoffNum * Len(block)

----------------------------------------------------------------------------
(* compute_spiking_error *)

\* An outcome of compute_spiking_error: what it returned or raised, with the
\* locals it had computed by then (0, <<>> and FALSE when not yet computed).
SpOutcome(kind, line, errors, pres_len, check_len, padded, windowed, used) ==
    [kind |-> kind, line |-> line, errors |-> errors, pres_len |-> pres_len,
     check_len |-> check_len, padded |-> padded, windowed |-> windowed,
     used |-> used]

\* line 64: assert test.ndim == 1 or test.ndim == 2 and test.shape[1] == 1
ShapeAccepted(test) ==
    test.ndim = 1 \/ (test.ndim = 2 /\ test.ncols = 1)

\* line 69: assert test.size % pres_len == 0
MultipleAccepted(size, pres_len) == size % pres_len = 0

\* line 70: if test.size % pres_len != 0
PadCondition(size, pres_len) == size % pres_len # 0

\* lines 71-73: the zero-padding branch.  np.zeros(test.size / pres_len + 1)
\* gets a float under Python 3, which numpy >= 1.12 refuses (TypeError,
\* line 71) and older numpy truncates; under Python 2 the size is the int
\* size // pres_len + 1, the same number.  test_pad[:test.size] = test is
\* then a broadcast error (ValueError, line 72) unless test fits and is
\* one-dimensional or a single entry.
PadSignal(test, pres_len, bld) ==
    LET size == Len(test.data)
        n == (size \div pres_len) + 1
    IN  IF bld.py = 3 /\ FloatIndexRejected(bld)
        THEN [kind |-> "TypeError", line |-> 71, data |-> <<>>]
        ELSE IF size > n \/ (test.ndim = 2 /\ size # 1)
        THEN [kind |-> "ValueError", line |-> 72, data |-> <<>>]
        ELSE [kind |-> "ok", line |-> 73,
              data |-> [i \in 1..n |-> IF i <= size THEN test.data[i] ELSE 0]]

\* line 76: the index -check_time of the slice [:, -check_time:], check_time
\* in seconds (ms / 1000).  A Python int is used as it is; a float is
\* truncated towards zero or rejected.
SliceStart(check_time, bld) ==
    IF check_time.isInt THEN [kind |-> "ok", k |-> check_time.ms \div 1000]
    ELSE IF FloatIndexRejected(bld) THEN [kind |-> "TypeError", k |-> 0]
    ELSE [kind |-> "ok", k |-> check_time.ms \div 1000]

\* lines 76-77: blocks = test.reshape(-1, pres_len)[:, -k:], and the blocks
Blocks(data, pres_len, k) ==
    [w \in 1..(Len(data) \div pres_len) |-> LastK(Reshape(data, pres_len)[w], k)]

\* lines 69-78, for the window lengths of lines 66-67.  A window length of
\* 0 is a ZeroDivisionError in the first test.size % pres_len evaluated: the
\* one of the assertion (line 69), or of the padding condition (line 70)
\* where the assertion is compiled away.
compute_spiking_error_windows(test, check_time, pres_len, check_len, bld) ==
    IF pres_len = 0
    THEN SpOutcome("ZeroDivisionError", IF ~bld.optimized THEN 69 ELSE 70,
                   <<>>, pres_len, check_len, FALSE, <<>>, <<>>)
    ELSE IF ~bld.optimized /\ ~MultipleAccepted(Len(test.data), pres_len)
    THEN SpOutcome("AssertionError", 69, <<>>, pres_len, check_len,
                   FALSE, <<>>, <<>>)
    ELSE
    LET pad == PadCondition(Len(test.data), pres_len)
        padres == IF pad THEN PadSignal(test, pres_len, bld)
                  ELSE [kind |-> "ok", line |-> 70, data |-> test.data]
        start == SliceStart(check_time, bld)
    IN  IF padres.kind # "ok"
        THEN SpOutcome(padres.kind, padres.line, <<>>, pres_len, check_len,
                       pad, <<>>, <<>>)
        ELSE IF Len(padres.data) % pres_len # 0
        THEN SpOutcome("ValueError", 76, <<>>, pres_len, check_len,
                       pad, padres.data, <<>>)
        ELSE IF start.kind # "ok"
        THEN SpOutcome(start.kind, 76, <<>>, pres_len, check_len,
                       pad, padres.data, <<>>)
        ELSE
        LET blocks == Blocks(padres.data, pres_len, start.k)
        IN  SpOutcome("return", 78,
                      [w \in 1..Len(blocks) |-> MeanBelowCutoff(blocks[w])],
                      pres_len, check_len, pad, padres.data,
                      [w \in 1..Len(blocks) |-> Len(blocks[w])])

\* lines 66-78, for the sample interval of line 65
compute_spiking_error_sampled(test, pres_time, check_time, dt, bld) ==
    IF dt = Zero
    THEN SpOutcome("ZeroDivisionError", 66, <<>>, 0, 0, FALSE, <<>>, <<>>)
    ELSE compute_spiking_error_windows(test, check_time,
                                       PyRound(Seconds(pres_time), dt, bld.py),
                                       PyRound(Seconds(check_time.ms), dt, bld.py),
                                       bld)

\* lines 64-78.  test.size, the reshape of line 76 and the padding take a
\* signal of any shape by its entries in row order.
compute_spiking_error(t, test, pres_time, check_time, bld) ==
    IF ~bld.optimized /\ ~ShapeAccepted(test)
    THEN SpOutcome("AssertionError", 64, <<>>, 0, 0, FALSE, <<>>, <<>>)
    ELSE IF Len(t) < 2
    THEN SpOutcome("IndexError", 65, <<>>, 0, 0, FALSE, <<>>, <<>>)
    ELSE compute_spiking_error_sampled(test, pres_time, check_time,
                                       Difference(Seconds(t[2]), Seconds(t[1])), bld)

----------------------------------------------------------------------------
(* _propup_static and compute_static_error *)

\* neurons.get_numpy_fn(name, params) applied to one value.  The neurons
\* module is outside view.py; 'lif' is a hard threshold (zero up to the
\* threshold, increasing above it) and 'softlif' its smoothing (positive
\* around the threshold as well).
NeuronFn(name, v) ==
    IF name = "lif" THEN 2 * Max(0, v)
    ELSE 2 * Max(0, v) + (IF v \in {-1, 0, 1} THEN 1 ELSE 0)

\* np.dot(x, w) + b for one example x, with w[i][j] the weight from input i
\* to unit j; a single column of w or a single entry of b is broadcast
\* over the units of the other
Affine(x, w, b) ==
    LET cols == Len(w[1])
        width == IF Len(b) = 1 THEN cols ELSE Len(b)
    IN  [j \in 1..width |->
           SumSeq([i \in 1..Len(x) |-> x[i] * w[i][IF cols = 1 THEN 1 ELSE j]])
           + b[IF Len(b) = 1 THEN 1 ELSE j]]

\* the shapes np.dot(x, w) + b accepts, for examples of n values: w has n
\* rows, and its columns and b broadcast (equal lengths, or one of them 1)
AffineAccepted(n, w, b) ==
    /\ n > 0
    /\ Len(w) = n
    /\ \A i \in 1..Len(w) : Len(w[i]) = Len(w[1])
    /\ (Len(w[1]) = Len(b) \/ Len(b) = 1 \/ Len(w[1]) = 1)

\* lines 24-29: forward(x, weights, biases) over a batch xs of examples;
\* zip stops at the shorter of weights and biases
RECURSIVE forward(_, _, _, _, _)
forward(xs, weights, biases, name, layers) ==
    IF weights = <<>> \/ biases = <<>>
    THEN [kind |-> "ok", x |-> xs, layers |-> layers]
    ELSE IF xs # <<>> /\ ~AffineAccepted(Len(xs[1]), Head(weights), Head(biases))
    THEN [kind |-> "ValueError", x |-> <<>>, layers |-> layers]
    ELSE
    LET x1 == [k \in 1..Len(xs) |->
                 LET a == Affine(xs[k], Head(weights), Head(biases))
                 IN  [j \in 1..Len(a) |-> NeuronFn(name, a[j])]]
    IN  forward(x1, Tail(weights), Tail(biases), name, Append(layers, x1))

\* lines 14-33
propup_static(params, images, neuron) ==
    LET f == forward(images, params.weights, params.biases, neuron.name, <<>>)
    IN  IF f.kind # "ok"
        THEN [kind |-> f.kind, layers |-> <<>>, codes |-> <<>>, yc |-> <<>>]
        ELSE IF f.x # <<>> /\ ~AffineAccepted(Len(f.x[1]), params.Wc, params.bc)
        THEN [kind |-> "ValueError", layers |-> <<>>, codes |-> <<>>, yc |-> <<>>]
        ELSE [kind |-> "ok", layers |-> f.layers, codes |-> f.x,
              yc |-> [k \in 1..Len(f.x) |-> Affine(f.x[k], params.Wc, params.bc)]]

\* np.argmax of one row: Python's index + 1 of the first greatest score
ArgMax(y) ==
    CHOOSE j \in 1..Len(y) :
        /\ \A i \in 1..Len(y) : y[i] <= y[j]
        /\ \A i \in 1..(j - 1) : y[i] < y[j]

\* the distinct values of a vector in the order of their first appearance
RECURSIVE FirstSeen(_, _)
FirstSeen(labels, acc) ==
    IF labels = <<>> THEN acc
    ELSE FirstSeen(Tail(labels),
                   IF \E i \in 1..Len(acc) : acc[i] = Head(labels) THEN acc
                   ELSE Append(acc, Head(labels)))
np_unique_unsorted(labels) == FirstSeen(labels, <<>>)

RECURSIVE SortedSeq(_)
SortedSeq(S) ==
    IF S = {} THEN <<>>
    ELSE LET m == CHOOSE x \in S : \A y \in S : x <= y
         IN  <<m>> \o SortedSeq(S \ {m})

\* np.unique(labels): the distinct labels, ascending
np_unique(labels) == SortedSeq({labels[k] : k \in 1..Len(labels)})

\* line 40: labels != classes[inds], a single entry on either side
\* broadcast over the other
NotEqual(labels, predicted) ==
    [k \in 1..(IF Len(labels) = 1 THEN Len(predicted) ELSE Len(labels)) |->
       labels[IF Len(labels) = 1 THEN 1 ELSE k]
         # predicted[IF Len(predicted) = 1 THEN 1 ELSE k]]

\* lines 36-41; an outcome carries the scores yc the errors were taken from.
\* When labels and the predictions do not broadcast, line 40 raises in
\* numpy >= 1.25 and gives the scalar True before ("scalar").
compute_static_error(params, images, labels, neuron, bld) ==
    LET p == propup_static(params, images, neuron)
    IN  IF p.kind # "ok" THEN [kind |-> p.kind, errors |-> <<>>, yc |-> <<>>]
        ELSE
        LET inds == [k \in 1..Len(p.yc) |-> ArgMax(p.yc[k])]
            classes == np_unique(labels)
        IN  IF \E k \in 1..Len(inds) : inds[k] > Len(classes)
            THEN [kind |-> "IndexError", errors |-> <<>>, yc |-> p.yc]
            ELSE IF Len(labels) # Len(inds) /\ Len(labels) # 1 /\ Len(inds) # 1
            THEN IF CompareMismatchRaises(bld)
                 THEN [kind |-> "ValueError", errors |-> <<>>, yc |-> p.yc]
                 ELSE [kind |-> "scalar", errors |-> <<TRUE>>, yc |-> p.yc]
            ELSE [kind |-> "return",
                  errors |-> NotEqual(labels, [k \in 1..Len(inds) |-> classes[inds[k]]]),
                  yc |-> p.yc]

----------------------------------------------------------------------------
(* view_spiking *)

\* a[mask] for a boolean mask over the first axis, Len(mask) = Len(a)
Masked(a, mask) ==
    LET Kept(pair) == pair[2]
        sel == SelectSeq([i \in 1..Len(a) |-> <<a[i], mask[i]>>], Kept)
    IN  [k \in 1..Len(sel) |-> sel[k][1]]

\* a[mask] as the release of numpy takes it.  A mask of another length than
\* a is an IndexError in numpy >= 1.13; before, the mask is applied to the
\* entries both have (with a warning), and is an IndexError only when it
\* selects an entry a does not have.
MaskedBy(a, mask, bld) ==
    IF Len(mask) = Len(a) THEN [kind |-> "ok", data |-> Masked(a, mask)]
    ELSE IF MaskMismatchRejected(bld) THEN [kind |-> "IndexError", data |-> <<>>]
    ELSE IF \E i \in (Len(a) + 1)..Len(mask) : mask[i]
    THEN [kind |-> "IndexError", data |-> <<>>]
    ELSE LET n == Min(Len(a), Len(mask))
         IN  [kind |-> "ok", data |-> Masked(SubSeq(a, 1, n), SubSeq(mask, 1, n))]

\* a[:n] for n >= 0
FirstN(a, n) == SubSeq(a, 1, Min(n, Len(a)))

\* line 88: the count and the size behind (layer > 0).mean()
SpikeCount(layer) ==
    SumSeq([i \in 1..Len(layer) |->
              SumSeq([j \in 1..Len(layer[i]) |-> IF layer[i][j] > 0 THEN 1 ELSE 0])])
LayerSize(layer) == SumSeq([i \in 1..Len(layer) |-> Len(layer[i])])

\* lines 92-95: np.arange(0, t[-1], pres_time), the times of the dashed bars:
\* ceil(t[-1] / pres_time) of them, bar i (from 0) at the double i * pres_time
PlotBars(t, pres_time) ==
    [i \in 1..FCeil(Quotient(Seconds(t[Len(t)]), Seconds(pres_time))) |->
        Product(i - 1, Seconds(pres_time))]

\* lines 127-128: the neurons of a layer that are drawn
Drawn(layer) ==
    [i \in 1..Len(layer) |-> FirstN(layer[i], max_neurons)]

VwOutcome(kind, line, printed, n_pres, images, labels, t, classifier, test, layers, bars, saved) ==
    [kind |-> kind, line |-> line, stdout |-> printed, n_pres |-> n_pres,
     images |-> images, labels |-> labels, t |-> t, classifier |-> classifier,
     test |-> test, layers |-> layers, bars |-> bars, saved |-> saved]

VwRaised(kind, line, printed) ==
    VwOutcome(kind, line, printed, 0, <<>>, <<>>, <<>>, <<>>, <<>>, <<>>, <<>>, FALSE)

\* line 97: n_pres = min(int(t[-1] / pres_time), max_pres)
NPres(t, pres_time, max_pres) ==
    Min(FTrunc(Quotient(Seconds(t[Len(t)]), Seconds(pres_time))), max_pres)

\* line 102: tmask = t <= max_t, for the double max_t
TimeMask(t, max_t) == [i \in 1..Len(t) |-> FCmp(Seconds(t[i]), max_t) <= 0]

\* lines 103-152, for the mask of line 102.  The subplot index of lines
\* 114-116 is a one-element array: the first next_subplot() of line 118
\* raises ValueError where matplotlib refuses it, after plt.figure() and
\* before anything is drawn.
view_spiking_masked(t, images, labels, classifier, test, pres_time, layers, savefile, bld, rates, n_pres, tmask) ==
    LET t1 == Masked(t, tmask)
        classifier1 == MaskedBy(classifier, tmask, bld)
        test1 == MaskedBy(test, tmask, bld)
        layers1 == [i \in 1..Len(layers) |-> MaskedBy(layers[i], tmask, bld)]
    IN  IF classifier1.kind # "ok" THEN VwRaised(classifier1.kind, 104, rates)
        ELSE IF test1.kind # "ok" THEN VwRaised(test1.kind, 105, rates)
        ELSE IF \E i \in 1..Len(layers) : layers1[i].kind # "ok"
        THEN VwRaised("IndexError", 106, rates)
        ELSE IF SubplotIndexRejected(bld) THEN VwRaised("ValueError", 116, rates)
        ELSE IF t1 = <<>> THEN VwRaised("IndexError", 94, rates)
        ELSE VwOutcome("return", 152,
                       rates \o (IF savefile # "" THEN <<<<"Saved image", savefile>>>>
                                 ELSE <<>>),
                       n_pres, FirstN(images, n_pres), FirstN(labels, n_pres),
                       t1, classifier1.data, test1.data,
                       [i \in 1..Len(layers) |-> Drawn(layers1[i].data)],
                       PlotBars(t1, pres_time), savefile # "")

\* lines 98-152, for the n_pres of line 97
view_spiking_first(t, images, labels, classifier, test, pres_time, layers, savefile, bld, rates, n_pres) ==
    view_spiking_masked(t, images, labels, classifier, test, pres_time, layers,
                        savefile, bld, rates, n_pres,
                        TimeMask(t, Product(n_pres, Seconds(pres_time))))

\* lines 81-152.  What is plotted is returned: the image strip, the time
\* axis, the traces and the layers as drawn, and the times of the bars.
\* A rate of line 89 is kept as the count, the size and the sample interval
\* in ms it is computed from.  With dt = 0 line 88 divides numpy floats and
\* prints inf or nan; with pres_time = 0 line 97 converts inf (OverflowError)
\* or nan (ValueError).
view_spiking(t, images, labels, classifier, test, pres_time, max_pres, layers, savefile, bld) ==
    IF Len(t) < 2 THEN VwRaised("IndexError", 84, <<>>)
    ELSE
    LET dt == t[2] - t[1]
        rates == [i \in 1..Len(layers) |->
                    <<"Layer", "", i, SpikeCount(layers[i]), LayerSize(layers[i]), dt>>]
    IN  IF pres_time = 0
        THEN VwRaised(IF t[Len(t)] = 0 THEN "ValueError" ELSE "OverflowError", 97, rates)
        ELSE view_spiking_first(t, images, labels, classifier, test, pres_time,
                                layers, savefile, bld, rates,
                                NPres(t, pres_time, max_pres))

----------------------------------------------------------------------------
(* view_static *)

CountIf(layer, bound) ==
    SumSeq([k \in 1..Len(layer) |->
              SumSeq([j \in 1..Len(layer[k]) |-> IF layer[k][j] > bound THEN 1 ELSE 0])])
TotalOf(layer) == SumSeq([k \in 1..Len(layer) |-> SumSeq(layer[k])])

\* lines 44-60: what view_static prints (the sums and counts behind the
\* means of lines 48-52: the total, the count > 0 and the count > 1) and
\* the histograms it draws before plt.show()
view_static(params, images, labels, neuron) ==
    LET p == propup_static(params, images, neuron)
    IN  IF p.kind # "ok" THEN [kind |-> p.kind, stdout |-> <<>>, hists |-> 0]
        ELSE [kind |-> "return",
              stdout |-> [i \in 1..Len(p.layers) |->
                            <<"Layer", neuron.name, i - 1, TotalOf(p.layers[i]),
                              CountIf(p.layers[i], 0), CountIf(p.layers[i], 1)>>]
                         \o << <<"Classifier", neuron.name, TotalOf(p.yc)>> >>,
              hists |-> Len(p.layers)]

----------------------------------------------------------------------------
(* The entry point, lines 155-206 *)

\* the keys of the default neuron_params of lines 173-174
DefaultNeuronParams == {"sigma", "tau_rc", "tau_ref", "gain", "bias", "amp"}

StaticKeys == {"weights", "biases", "Wc", "bc"}
SpikingKeys == {"t", "classifier", "test"}
ViewKeys == {"t", "images", "labels", "classifier", "test", "pres_time"}

\* line 168 with any() for all()
IsStaticFile_Any(keys) == StaticKeys \cap keys # {}

\* line 168: all(a in data for a in ['weights', 'biases', 'Wc', 'bc'])
IsStaticFile(keys) == StaticKeys \subseteq keys

\* line 194: all(a in data for a in ['t', 'classifier', 'test'])
IsSpikingFile(keys) == SpikingKeys \subseteq keys

\* line 182: neuron = ('softlif', dict(neuron_params))
SoftlifNeuron(np) == [name |-> "softlif", params |-> np]

\* lines 187-188 with the neuron name of line 182
LifNeuron_StillSoftlif(np) ==
    [name |-> "softlif", params |-> np \ {"sigma"}]

\* lines 187-188: neuron = ('lif', dict(neuron_params)); neuron[1].pop('sigma')
LifNeuron(np) ==
    [name |-> "lif", params |-> np \ {"sigma"}]

\* errors.mean() as the pair of the count of True and the length
ErrorRate(errors) ==
    <<SumSeq([k \in 1..Len(errors) |-> IF errors[k] THEN 1 ELSE 0]), Len(errors)>>

Terminated == pc \in {"done", "raised"}

Raise(kind, line) ==
    /\ pc' = "raised"
    /\ err' = [kind |-> kind, line |-> line]

NoErr == [kind |-> "", line |-> 0]

\* lines 164-165
CheckPath ==
    /\ pc = "start"
    /\ IF ~main_in.exists
       THEN Raise("IOError", 165)
       ELSE pc' = "load" /\ UNCHANGED err
    /\ UNCHANGED <<main_in, stdout, events, neuron_params>>
    /\ UNCHANGED <<build, call_vars>>

\* lines 167, 168, 194, 205-206: np.load and the dispatch on the keys
LoadAndDispatch ==
    /\ pc = "load"
    /\ events' = Append(events, <<"np.load", "">>)
    /\ IF IsStaticFile(main_in.keys)
       THEN pc' = "static_params" /\ UNCHANGED err
       ELSE IF IsSpikingFile(main_in.keys)
       THEN pc' = "spiking_error" /\ UNCHANGED err
       ELSE Raise("ValueError", 206)
    /\ UNCHANGED <<main_in, stdout, neuron_params>>
    /\ UNCHANGED <<build, call_vars>>

\* lines 170-174.  data['neuron'] is a pickled entry (a name and a dict),
\* and line 167 loads the archive without allow_pickle: reading it is a
\* ValueError where np.load refuses pickled entries.
StaticNeuronParams ==
    /\ pc = "static_params"
    /\ IF "neuron" \in main_in.keys /\ PickleRefused(build)
       THEN Raise("ValueError", 171) /\ UNCHANGED neuron_params
       ELSE /\ neuron_params' = IF "neuron" \in main_in.keys THEN main_in.neuron
                                 ELSE DefaultNeuronParams
            /\ pc' = "static_data"
            /\ UNCHANGED err
    /\ UNCHANGED <<main_in, stdout, events>>
    /\ UNCHANGED <<build, call_vars>>

\* lines 176-179: mnist.load and the assertion on the number of classes,
\* whose data['bc'] is read only where the assertion is executed
StaticLoadData ==
    /\ pc = "static_data"
    /\ events' = Append(events, <<"mnist.load", "">>)
    /\ IF build.optimized
       THEN pc' = "static_softlif" /\ UNCHANGED err
       ELSE IF "bc" \notin main_in.keys
       THEN Raise("KeyError", 179)
       ELSE IF Len(np_unique(main_in.labels)) # Len(main_in.params.bc)
       THEN Raise("AssertionError", 179)
       ELSE pc' = "static_softlif" /\ UNCHANGED err
    /\ UNCHANGED <<main_in, stdout, neuron_params>>
    /\ UNCHANGED <<build, call_vars>>

\* data[...] inside _propup_static, lines 15-18
ParamsPresent == StaticKeys \subseteq main_in.keys

\* lines 181-185
StaticSoftlif ==
    /\ pc = "static_softlif"
    /\ LET neuron == SoftlifNeuron(neuron_params)
           r == compute_static_error(main_in.params, main_in.images,
                                     main_in.labels, neuron, build)
       IN  IF ~ParamsPresent
           THEN Raise("KeyError", 183) /\ UNCHANGED <<stdout, events>>
           ELSE /\ events' = Append(events, <<"_propup_static", neuron.name>>)
                /\ IF r.kind = "scalar"
                   THEN /\ Raise("AttributeError", 185)
                        /\ stdout' = Append(stdout, <<"Static network with", neuron.name>>)
                   ELSE IF r.kind # "return"
                   THEN Raise(r.kind, 183) /\ UNCHANGED stdout
                   ELSE /\ stdout' = stdout \o
                             << <<"Static network with", neuron.name>>,
                                <<"Static error", neuron.name, ErrorRate(r.errors)>> >>
                        /\ pc' = "static_lif"
                        /\ UNCHANGED err
    /\ UNCHANGED <<main_in, neuron_params>>
    /\ UNCHANGED <<build, call_vars>>

\* lines 187-191
StaticLif ==
    /\ pc = "static_lif"
    /\ LET neuron == LifNeuron(neuron_params)
           r == compute_static_error(main_in.params, main_in.images,
                                     main_in.labels, neuron, build)
       IN  IF "sigma" \notin neuron_params
           THEN Raise("KeyError", 188) /\ UNCHANGED <<stdout, events>>
           ELSE /\ events' = Append(events, <<"_propup_static", neuron.name>>)
                /\ IF r.kind = "scalar"
                   THEN /\ Raise("AttributeError", 191)
                        /\ stdout' = Append(stdout, <<"Static network with", neuron.name>>)
                   ELSE IF r.kind # "return"
                   THEN Raise(r.kind, 189) /\ UNCHANGED stdout
                   ELSE /\ stdout' = stdout \o
                             << <<"Static network with", neuron.name>>,
                                <<"Static error", neuron.name, ErrorRate(r.errors)>> >>
                        /\ pc' = "static_view"
                        /\ UNCHANGED err
    /\ UNCHANGED <<main_in, neuron_params>>
    /\ UNCHANGED <<build, call_vars>>

\* line 192: view_static(data, images, labels, neuron), neuron still the
\* one of lines 187-188
StaticView ==
    /\ pc = "static_view"
    /\ LET neuron == LifNeuron(neuron_params)
           v == view_static(main_in.params, main_in.images, main_in.labels, neuron)
       IN  /\ IF v.kind # "return"
              THEN Raise(v.kind, 192) /\ UNCHANGED stdout
                   /\ events' = Append(events, <<"_propup_static", neuron.name>>)
              ELSE /\ stdout' = stdout \o v.stdout
                   /\ events' = events \o << <<"_propup_static", neuron.name>> >>
                                   \o [i \in 1..v.hists |-> <<"plt.hist", neuron.name>>]
                                   \o << <<"plt.show", "">> >>
                   /\ pc' = "done"
                   /\ UNCHANGED err
    /\ UNCHANGED <<main_in, neuron_params>>
    /\ UNCHANGED <<build, call_vars>>

\* the (n, 1) correctness probe of the archive
ArchiveTest == [ndim |-> 2, ncols |-> 1, data |-> main_in.test]

\* lines 197-200: compute_spiking_error(t, test, pres_time), defaults else
SpikingError ==
    /\ pc = "spiking_error"
    /\ IF ~({"t", "test", "pres_time"} \subseteq main_in.keys)
       THEN Raise("KeyError", 198) /\ UNCHANGED stdout
       ELSE LET r == compute_spiking_error(
                        main_in.t, ArchiveTest, main_in.pres_time,
                        [ms |-> DefaultCheckTimeMs, isInt |-> FALSE], build)
            IN  IF r.kind # "return"
                THEN Raise(r.kind, 199) /\ UNCHANGED stdout
                ELSE /\ stdout' = Append(stdout,
                                         <<"Spiking network error", "", ErrorRate(r.errors)>>)
                     /\ pc' = "spiking_view"
                     /\ UNCHANGED err
    /\ UNCHANGED <<main_in, events, neuron_params>>
    /\ UNCHANGED <<build, call_vars>>

\* lines 202-204: view_spiking with max_pres, layers and savefile defaulted.
\* A key missing at data[a] fails the statement of lines 202-203, which a
\* traceback reports at its first line from CPython 3.8 on and at its last
\* line before.
SpikingView ==
    /\ pc = "spiking_view"
    /\ IF ~(ViewKeys \subseteq main_in.keys)
       THEN Raise("KeyError", IF build.py37 THEN 202 ELSE 203)
            /\ UNCHANGED <<stdout, events>>
       ELSE LET v == view_spiking(main_in.t, main_in.spk_images, main_in.spk_labels,
                                  main_in.classifier, main_in.test,
                                  main_in.pres_time, DefaultMaxPres, <<>>, "", build)
            IN  /\ stdout' = stdout \o v.stdout
                /\ IF v.kind # "return"
                   THEN Raise(v.kind, 204) /\ UNCHANGED events
                   ELSE /\ events' = Append(events, <<"plt.show", "">>)
                        /\ pc' = "done"
                        /\ UNCHANGED err
    /\ UNCHANGED <<main_in, neuron_params>>
    /\ UNCHANGED <<build, call_vars>>

----------------------------------------------------------------------------
(* Inputs of compute_spiking_error *)

RECURSIVE BinSeqs(_)
BinSeqs(n) ==
    IF n = 0 THEN {<<>>}
    ELSE {Append(s, b) : s \in BinSeqs(n - 1), b \in {0, 1}}

\* the uniformly sampled time axis t0 + dt, t0 + 2 dt, ... of n samples
TimeAxis(t0, dt, n) == [i \in 1..n |-> t0 + (i - 1) * dt]

\* one presentation window of p samples: value h, then tl in its last k samples
Window(p, k, h, tl) == [i \in 1..p |-> IF i > p - k THEN tl ELSE h]

RECURSIVE Concat(_)
Concat(ss) == IF ss = <<>> THEN <<>> ELSE Head(ss) \o Concat(Tail(ss))

WindowKinds == {<<0, 0>>, <<0, 1>>, <<1, 0>>, <<1, 1>>}

RECURSIVE KindSeqs(_)
KindSeqs(n) ==
    IF n = 0 THEN {<<>>}
    ELSE {Append(s, k) : s \in KindSeqs(n - 1), k \in WindowKinds}

\* signals of 1..MaxWindows windows of p samples, each uniform or with a
\* differing tail of k samples, optionally followed by x stray samples
PatternSignals(p, k) ==
    {Concat([w \in 1..Len(ks) |-> Window(p, k, ks[w][1], ks[w][2])])
        \o [i \in 1..x |-> 1] :
        ks \in UNION {KindSeqs(n) : n \in 1..MaxWindows}, x \in {0, 1}}

SampleIntervals == {10, 20}
PresTimes == {10, 20, 30, 50, 1000}
CheckTimes == {[ms |-> DefaultCheckTimeMs, isInt |-> FALSE],
               [ms |-> 1500, isInt |-> FALSE],
               [ms |-> 1000, isInt |-> TRUE]}

Signals(dt, pres_time) ==
    UNION {BinSeqs(n) : n \in 1..MaxLen}
    \cup PatternSignals(pres_time \div dt, Min(pres_time \div dt, DefaultCheckTimeMs \div dt))

\* the layouts of test: (n,), (n, 1), (n/2, 2), (n, 1, 1)
Layouts(data) ==
    {[ndim |-> 1, ncols |-> 0, data |-> data],
     [ndim |-> 2, ncols |-> 1, data |-> data],
     [ndim |-> 3, ncols |-> 1, data |-> data]}
    \cup (IF Len(data) % 2 = 0
          THEN {[ndim |-> 2, ncols |-> 2, data |-> data]} ELSE {})

NoSpIn == [dt |-> 0, t0 |-> 0, pres_time |-> 0,
           check_time |-> [ms |-> 0, isInt |-> FALSE],
           test |-> [ndim |-> 0, ncols |-> 0, data |-> <<>>]]
NoSpOut == SpOutcome("none", 0, <<>>, 0, 0, FALSE, <<>>, <<>>)

----------------------------------------------------------------------------
(* Inputs of compute_static_error: toy networks on images of two pixels *)

\* most images (and labels) of a toy dataset
MaxImages == 2

RECURSIVE SeqsOf(_, _)
SeqsOf(S, n) ==
    IF n = 0 THEN {<<>>}
    ELSE {Append(s, x) : s \in SeqsOf(S, n - 1), x \in S}

ToyImages == {<<0, 0>>, <<0, 1>>, <<1, 0>>, <<1, 1>>}
ToyLabels == {1, 3, 4}

HiddenWeights == {<< <<1, 0>>, <<0, 1>> >>, << <<0, 1>>, <<1, 0>> >>,
                  << <<1, -1>>, <<-1, 1>> >>}
\* one bias per unit, or a single bias broadcast over the units
HiddenBiases == {<<0, 0>>, <<-1, 1>>, <<1>>}

\* the hidden stacks: none, one or two layers of two units
Stacks ==
    {[weights |-> <<>>, biases |-> <<>>]}
    \cup {[weights |-> <<w>>, biases |-> <<b>>] :
             w \in HiddenWeights, b \in HiddenBiases}
    \cup {[weights |-> <<w, w>>, biases |-> <<b, <<0, 0>> >>] :
             w \in HiddenWeights, b \in HiddenBiases}

\* classifiers of n classes on two codes; the last of two classes has a
\* single column, broadcast over the two entries of bc
Classifiers(n) ==
    IF n = 1 THEN {[Wc |-> << <<1>>, <<1>> >>, bc |-> <<0>>]}
    ELSE IF n = 2
    THEN {[Wc |-> wc, bc |-> bc] :
             wc \in {<< <<1, 0>>, <<0, 1>> >>, << <<0, 1>>, <<1, 0>> >>,
                     << <<1, 1>>, <<0, 0>> >>},
             bc \in {<<0, 0>>, <<0, 1>>}}
         \cup {[Wc |-> << <<1>>, <<2>> >>, bc |-> <<0, 1>>]}
    ELSE {[Wc |-> wc, bc |-> <<0, 0, 1>>] :
             wc \in {<< <<2, 0, 0>>, <<0, 2, 0>> >>, << <<0, 1, 1>>, <<1, 0, 1>> >>}}

ParamSets(n) ==
    {[weights |-> s.weights, biases |-> s.biases, Wc |-> c.Wc, bc |-> c.bc] :
        s \in Stacks, c \in Classifiers(n)}

Neurons == {[name |-> "softlif", params |-> DefaultNeuronParams],
            [name |-> "lif", params |-> DefaultNeuronParams \ {"sigma"}]}

NoStIn == [params |-> [weights |-> <<>>, biases |-> <<>>, Wc |-> <<>>, bc |-> <<>>],
           images |-> <<>>, labels |-> <<>>,
           neuron |-> [name |-> "", params |-> {}]]
NoStOut == [kind |-> "none", errors |-> <<>>, yc |-> <<>>]

----------------------------------------------------------------------------
(* Inputs of view_spiking *)

\* most samples of a short spiking run
MaxSamples == 6
\* the samples of a run of more presentation windows than max_pres
LongRun == 30

ViewPresTimes == {10, 20, 30, 40, 50}
ViewMaxPres == {1, 2, DefaultMaxPres}
SpikeRows == {<<0, 1>>, <<1, 1>>}

NoVwIn == [t |-> <<>>, dt |-> 0, t0 |-> 0, images |-> <<>>, labels |-> <<>>,
           classifier |-> <<>>, test |-> <<>>, pres_time |-> 0, max_pres |-> 0,
           layers |-> <<>>, savefile |-> ""]
NoVwOut == VwRaised("none", 0, <<>>)

----------------------------------------------------------------------------
(* Inputs of the entry point *)

\* the key sets of the archives: every set of spiking keys, and the static
\* keys (whole, one short, or one alone) with no, some or all spiking keys
ArchiveKeys ==
    SUBSET ViewKeys
    \cup {s \cup p :
            s \in {StaticKeys, StaticKeys \cup {"neuron"}, {"weights"}}
                  \cup {StaticKeys \ {k} : k \in StaticKeys},
            p \in {{}, SpikingKeys, ViewKeys}}

\* stored networks: one hidden layer, none, and one whose weights do not
\* fit the images
ArchiveParams ==
    {[weights |-> << << <<1, 0>>, <<0, 1>> >> >>, biases |-> << <<0, 0>> >>,
      Wc |-> << <<1, 0>>, <<0, 1>> >>, bc |-> <<0, 0>>],
     [weights |-> <<>>, biases |-> <<>>,
      Wc |-> << <<0, 1>>, <<1, 0>> >>, bc |-> <<0, 0>>],
     [weights |-> << << <<1, 0>>, <<0, 1>>, <<1, 1>> >> >>, biases |-> << <<0, 0>> >>,
      Wc |-> << <<1, 0>>, <<0, 1>> >>, bc |-> <<0, 0>>]}

\* what mnist.load returns: test images and their labels
Datasets ==
    {[images |-> << <<1, 0>>, <<0, 1>>, <<1, 0>> >>, labels |-> <<1, 3, 3>>],
     [images |-> << <<1, 0>>, <<0, 1>>, <<1, 1>> >>, labels |-> <<1, 3, 4>>]}

\* spiking run records at dt = 0.01 s: the samples, the presentation time
\* and the number of images
Runs ==
    {[n |-> 4, pres_time |-> 20, n_img |-> 2],
     [n |-> 3, pres_time |-> 20, n_img |-> 2],
     [n |-> 200, pres_time |-> 1000, n_img |-> 2]}

\* the entry point is not running
MainIdle ==
    /\ main_in = [exists |-> FALSE, keys |-> {}]
    /\ pc = "idle"
    /\ stdout = <<>>
    /\ events = <<>>
    /\ err = NoErr
    /\ neuron_params = {}

----------------------------------------------------------------------------
(* compute_spiking_error applied to every input of the bounded sets *)

InitSpiking ==
    /\ build \in BuildsByBehaviour
    /\ \E dt \in SampleIntervals, pres_time \in PresTimes :
         /\ \E data \in Signals(dt, pres_time), ct \in CheckTimes, t0 \in {0, dt} :
              \E test \in Layouts(data) :
                sp_in = [dt |-> dt, t0 |-> t0, pres_time |-> pres_time,
                         check_time |-> ct, test |-> test]
    /\ sp_out = NoSpOut
    /\ st_in = NoStIn
    /\ st_out = NoStOut
    /\ vw_in = NoVwIn
    /\ vw_out = NoVwOut
    /\ MainIdle

\* the time axis has one sample per row of test
SpRows(test) == IF test.ndim = 2 /\ test.ncols = 2 THEN Len(test.data) \div 2
                ELSE Len(test.data)

CallComputeSpikingError ==
    /\ sp_out.kind = "none"
    /\ sp_out' = compute_spiking_error(
                    TimeAxis(sp_in.t0, sp_in.dt, SpRows(sp_in.test)),
                    sp_in.test, sp_in.pres_time, sp_in.check_time, build)
    /\ UNCHANGED <<build, sp_in, st_in, st_out, vw_in, vw_out, main_vars>>

NextSpiking == CallComputeSpikingError

SpecSpiking == InitSpiking /\ [][NextSpiking]_vars

----------------------------------------------------------------------------
(* Claims about compute_spiking_error, checked under SpecSpiking *)

SpCalled == sp_out.kind # "none"

\* round(n / d) of the whole numbers n >= 0 and d > 0, a half rounded as the
\* build's round does
RoundedRatio(n, d, py) ==
    LET q == n \div d
        r == n % d
    IN  IF 2 * r < d THEN q
        ELSE IF 2 * r > d THEN q + 1
        ELSE IF py = 2 THEN q + 1
        ELSE IF q % 2 = 0 THEN q ELSE q + 1

\* the window length of the claims: round(pres_time / dt) samples, of the
\* times in ms
WindowLength == RoundedRatio(sp_in.pres_time, sp_in.dt, build.py)

\* the samples of window w of the input signal, w = 1, 2, ...
WindowOf(w) ==
    SubSeq(sp_in.test.data, (w - 1) * WindowLength + 1, w * WindowLength)

IsExactMultiple(n, m) == \E k \in 0..n : n = k * m

AtClaimedTimes ==
    /\ sp_in.dt = 10
    /\ sp_in.pres_time = 1000
    /\ sp_in.check_time = [ms |-> 50, isInt |-> FALSE]

\* C1: with dt = 0.01 s and pres_time = 1.0 s the window has exactly 100
\* samples, and with check_time = 0.05 s the error of every window is decided
\* by the mean of exactly its last 5 samples.
C1_LastFiveSamplesDecide ==
    (SpCalled /\ AtClaimedTimes /\ sp_out.kind = "return") =>
        /\ sp_out.pres_len = 100
        /\ \A w \in 1..Len(sp_out.errors) :
             /\ sp_out.used[w] = 5
             /\ sp_out.errors[w] = MeanBelowCutoff(LastK(WindowOf(w), 5))

\* C5: a correctness signal that is neither one-dimensional nor
\* two-dimensional with one column, or whose size is no exact multiple of the
\* window length, makes compute_spiking_error fail with an assertion: it
\* returns no error vector and neither pads nor truncates the signal.
C5_BadSignalFailsAssertion ==
    (/\ SpCalled
     /\ \/ ~(sp_in.test.ndim = 1 \/ (sp_in.test.ndim = 2 /\ sp_in.test.ncols = 1))
        \/ ~IsExactMultiple(Len(sp_in.test.data), WindowLength)) =>
        /\ sp_out.kind = "AssertionError"
        /\ sp_out.errors = <<>>
        /\ ~sp_out.padded
        /\ sp_out.windowed = <<>>

AllSamples(v) == \A i \in 1..Len(sp_in.test.data) : sp_in.test.data[i] = v

\* C7: for a correctness signal whose length is an exact multiple of the
\* window length, compute_spiking_error returns one entry per presentation
\* window, all False on an all-ones signal and all True on an all-zeros one.
C7_OneEntryPerWindow ==
    (/\ SpCalled
     /\ sp_in.test.ndim = 1 \/ (sp_in.test.ndim = 2 /\ sp_in.test.ncols = 1)
     /\ IsExactMultiple(Len(sp_in.test.data), WindowLength)) =>
        /\ sp_out.kind = "return"
        /\ Len(sp_out.errors) * WindowLength = Len(sp_in.test.data)
        /\ AllSamples(1) => \A w \in 1..Len(sp_out.errors) : ~sp_out.errors[w]
        /\ AllSamples(0) => \A w \in 1..Len(sp_out.errors) : sp_out.errors[w]

\* C9: in every execution that gets past the assertion of line 69 the padding
\* condition of line 70 is false, and the signal that is windowed is the
\* input signal, unmodified.
C9_PaddingUnreachable ==
    (SpCalled /\ sp_out.line > 69) =>
        /\ ~sp_out.padded
        /\ sp_out.windowed = sp_in.test.data

----------------------------------------------------------------------------
(* compute_static_error applied to every input of the bounded sets *)

\* An image batch with one label per image, and a network with one
\* classifier unit per distinct label (what the assertion of line 179 states).
InitStatic ==
    /\ build \in {b \in BuildsByArithmetic : b.py = 3 /\ ~FloatIndexRejected(b)}
                \cup {b \in BuildsByArithmetic : CompareMismatchRaises(b)}
    /\ \E n \in 1..MaxImages :
         \E images \in SeqsOf(ToyImages, n), labels \in SeqsOf(ToyLabels, n) :
           \E params \in ParamSets(Len(np_unique(labels))), neuron \in Neurons :
             st_in = [params |-> params, images |-> images, labels |-> labels,
                      neuron |-> neuron]
    /\ st_out = NoStOut
    /\ sp_in = NoSpIn
    /\ sp_out = NoSpOut
    /\ vw_in = NoVwIn
    /\ vw_out = NoVwOut
    /\ MainIdle

CallComputeStaticError ==
    /\ st_out.kind = "none"
    /\ st_in.images # <<>>
    /\ st_out' = compute_static_error(st_in.params, st_in.images, st_in.labels,
                                      st_in.neuron, build)
    /\ UNCHANGED <<build, st_in, sp_in, sp_out, vw_in, vw_out, main_vars>>

NextStatic == CallComputeStaticError

SpecStatic == InitStatic /\ [][NextStatic]_vars

----------------------------------------------------------------------------
(* Claim about compute_static_error, checked under SpecStatic *)

\* j is an arg-max index of the scores y: no score is greater, and no
\* earlier score is as great
IsArgMax(j, y) ==
    /\ j \in 1..Len(y)
    /\ \A i \in 1..Len(y) : y[i] <= y[j]
    /\ \A i \in 1..Len(y) : i < j => y[i] < y[j]

\* c is the label the sorted-unique list of the labels assigns to index j:
\* exactly j - 1 distinct labels are smaller
IsClassOf(c, j) ==
    LET S == {st_in.labels[k] : k \in 1..Len(st_in.labels)}
    IN  c \in S /\ Cardinality({d \in S : d < c}) = j - 1

\* C6: compute_static_error returns a boolean vector with one entry per
\* image, and entry k is True exactly when the label that the sorted-unique
\* label list assigns to the arg-max index of example k's classifier scores
\* differs from the true label of example k.
C6_StaticErrorVector ==
    (st_out.kind # "none") =>
        LET yc == st_out.yc
        IN  /\ st_out.kind = "return"
            /\ Len(st_out.errors) = Len(st_in.images)
            /\ \A k \in 1..Len(st_out.errors) :
                 st_out.errors[k] \in BOOLEAN
                 /\ (st_out.errors[k] <=>
                       \E j \in 1..Len(yc[k]), c \in ToyLabels :
                          /\ IsArgMax(j, yc[k])
                          /\ IsClassOf(c, j)
                          /\ c # st_in.labels[k])

\* a batch with a right and a wrong prediction, on labels whose values are
\* not their indices
C6_Witness ==
    /\ st_out.kind = "return"
    /\ \E k \in 1..Len(st_out.errors) : st_out.errors[k]
    /\ \E k \in 1..Len(st_out.errors) : ~st_out.errors[k]
    /\ st_in.params.weights # <<>>
    /\ st_in.labels[1] > st_in.labels[2]

----------------------------------------------------------------------------
(* view_spiking applied to every input of the bounded sets *)

\* A spiking run record: a uniform time axis, one classifier and one
\* correctness sample per time step, some images and labels, at most one
\* layer of two neurons.
InitView ==
    /\ build \in BuildsByArithmetic
                \cup {b \in Builds : SubplotIndexRejected(b) /\ ~b.optimized}
    /\ \E dt \in SampleIntervals, n \in (2..MaxSamples) \cup {LongRun},
          pres_time \in ViewPresTimes, max_pres \in ViewMaxPres :
         \E t0 \in {0, dt}, n_img \in {0, 1, 3, LongRun},
            rows \in {<<>>} \cup {<<r>> : r \in SpikeRows}, savefile \in {"", "out.png"} :
           vw_in = [t |-> TimeAxis(t0, dt, n), dt |-> dt, t0 |-> t0,
                    images |-> [i \in 1..n_img |-> 100 + i],
                    labels |-> [i \in 1..n_img |-> i % 10],
                    classifier |-> [i \in 1..n |-> i % 3],
                    test |-> [i \in 1..n |-> i % 2],
                    pres_time |-> pres_time, max_pres |-> max_pres,
                    layers |-> [l \in 1..Len(rows) |-> [i \in 1..n |-> rows[l]]],
                    savefile |-> savefile]
    /\ vw_out = NoVwOut
    /\ sp_in = NoSpIn
    /\ sp_out = NoSpOut
    /\ st_in = NoStIn
    /\ st_out = NoStOut
    /\ MainIdle

CallViewSpiking ==
    /\ vw_out.kind = "none"
    /\ vw_in.t # <<>>
    /\ vw_out' = view_spiking(vw_in.t, vw_in.images, vw_in.labels,
                              vw_in.classifier, vw_in.test, vw_in.pres_time,
                              vw_in.max_pres, vw_in.layers, vw_in.savefile, build)
    /\ UNCHANGED <<build, sp_in, sp_out, st_in, st_out, vw_in, main_vars>>

NextView == CallViewSpiking

SpecView == InitView /\ [][NextView]_vars

----------------------------------------------------------------------------
(* Claim about view_spiking, checked under SpecView *)

VwWindowLength == RoundedRatio(vw_in.pres_time, vw_in.dt, build.py)
VwLast == vw_in.t[Len(vw_in.t)]

IsPrefix(a, b) == Len(a) <= Len(b) /\ a = SubSeq(b, 1, Len(a))

VwCutAlike ==
    /\ vw_out.n_pres = Min(VwLast \div vw_in.pres_time, vw_in.max_pres)
    /\ vw_out.n_pres <= vw_in.max_pres
    /\ vw_out.images = SubSeq(vw_in.images, 1, Min(vw_out.n_pres, Len(vw_in.images)))
    /\ vw_out.labels = SubSeq(vw_in.labels, 1, Min(vw_out.n_pres, Len(vw_in.labels)))
    /\ IsPrefix(vw_out.t, vw_in.t)
    /\ IsPrefix(vw_out.classifier, vw_in.classifier)
    /\ IsPrefix(vw_out.test, vw_in.test)
    /\ Len(vw_out.classifier) = Len(vw_out.t)
    /\ Len(vw_out.test) = Len(vw_out.t)
    /\ Len(vw_out.layers) = Len(vw_in.layers)
    /\ \A l \in 1..Len(vw_out.layers) :
         /\ Len(vw_out.layers[l]) = Len(vw_out.t)
         /\ IsPrefix(vw_out.layers[l], vw_in.layers[l])

\* C10: view_spiking keeps the first n_pres images and labels,
\* n_pres = min(floor(t_last / pres_time), max_pres), cuts the time axis, the
\* traces and every layer by the same mask, and what is left spans no more
\* than n_pres whole windows, n_pres * window length samples.
C10_AtMostNPresWindows ==
    (vw_out.kind = "return") =>
        /\ VwCutAlike
        /\ Len(vw_out.t) <= vw_out.n_pres * VwWindowLength

----------------------------------------------------------------------------
(* The entry point run on every archive of the bounded sets *)

InitMain ==
    /\ build \in Builds
    /\ \E exists \in BOOLEAN, keys \in ArchiveKeys, params \in ArchiveParams,
          ds \in Datasets, run \in Runs, t0 \in {0, 10} :
         main_in = [exists |-> exists, keys |-> keys, params |-> params,
                    neuron |-> DefaultNeuronParams,
                    images |-> ds.images, labels |-> ds.labels,
                    t |-> TimeAxis(t0, 10, run.n),
                    test |-> [i \in 1..run.n |-> IF i % 4 = 0 THEN 0 ELSE 1],
                    classifier |-> [i \in 1..run.n |-> i % 3],
                    pres_time |-> run.pres_time,
                    spk_images |-> [i \in 1..run.n_img |-> 100 + i],
                    spk_labels |-> [i \in 1..run.n_img |-> i % 10]]
    /\ pc = "start"
    /\ stdout = <<>>
    /\ events = <<>>
    /\ err = NoErr
    /\ neuron_params = {}
    /\ sp_in = NoSpIn
    /\ sp_out = NoSpOut
    /\ st_in = NoStIn
    /\ st_out = NoStOut
    /\ vw_in = NoVwIn
    /\ vw_out = NoVwOut

NextMain ==
    \/ CheckPath
    \/ LoadAndDispatch
    \/ StaticNeuronParams
    \/ StaticLoadData
    \/ StaticSoftlif
    \/ StaticLif
    \/ StaticView
    \/ SpikingError
    \/ SpikingView

Spec == InitMain /\ [][NextMain]_vars

----------------------------------------------------------------------------
(* Claims about the entry point, checked under Spec *)

\* the archive is dispatched to the spiking pipeline (lines 168 and 194)
DispatchedSpiking ==
    /\ main_in.exists
    /\ ~(StaticKeys \subseteq main_in.keys)
    /\ {"t", "classifier", "test"} \subseteq main_in.keys

\* the keys the spiking pipeline reads (lines 198 and 202-203)
SpikingRequired == {"t", "classifier", "test", "pres_time", "images", "labels"}

\* C2: an archive that lacks a key required by the pipeline it is dispatched
\* to makes the entry point raise ValueError "Unrecognized load file type",
\* no other error, and no partial view.
C2_MissingKeyIsUnrecognized ==
    (Terminated /\ DispatchedSpiking /\ ~(SpikingRequired \subseteq main_in.keys)) =>
        /\ err.kind = "ValueError"
        /\ stdout = <<>>

\* C3: a run either completes the whole compute-and-view cycle or aborts
\* before it has produced any output.
C3_NoOutputBeforeFailure ==
    Terminated => (pc = "done" \/ stdout = <<>>)

\* C4: a path that does not exist gives IOError before anything is loaded;
\* an archive with neither the four static keys nor the spiking keys
\* t, classifier and test gives ValueError, and neither pipeline runs.
C4_PathAndFormatErrors ==
    /\ (Terminated /\ ~main_in.exists) =>
          /\ pc = "raised"
          /\ err.kind = "IOError"
          /\ events = <<>>
          /\ stdout = <<>>
    /\ (/\ Terminated
        /\ main_in.exists
        /\ \E k \in {"weights", "biases", "Wc", "bc"} : k \notin main_in.keys
        /\ \E k \in {"t", "classifier", "test"} : k \notin main_in.keys) =>
          /\ pc = "raised"
          /\ err.kind = "ValueError"
          /\ events = << <<"np.load", "">> >>
          /\ stdout = <<>>
          /\ neuron_params = {}

\* an archive with three of the four static keys was loaded and refused
C4_Witness ==
    /\ pc = "raised"
    /\ err.kind = "ValueError"
    /\ main_in.exists
    /\ main_in.keys = {"weights", "biases", "Wc"}

StaticDone == pc = "done" /\ StaticKeys \subseteq main_in.keys

\* the hidden layers of the stored network
NLayers == Min(Len(main_in.params.weights), Len(main_in.params.biases))

Printed(tag, name) ==
    \E i \in 1..Len(stdout) : stdout[i][1] = tag /\ stdout[i][2] = name

\* C8 as stated: the static pipeline evaluates with softlif and then with
\* lif, and prints the classification error and the per-layer activation
\* statistics for each of the two.
C8_StatisticsForBoth ==
    (StaticDone /\ NLayers >= 1) =>
        \A name \in {"softlif", "lif"} :
            Printed("Static error", name) /\ Printed("Layer", name)

\* C8 as amended: softlif is evaluated and its error printed, then lif is
\* evaluated and its error printed; then view_static evaluates lif once more
\* and prints the per-layer statistics and the classifier statistics for lif
\* alone, and the histograms are shown after all of that.
C8_ErrorsForBothStatisticsForLif ==
    StaticDone =>
        /\ Len(stdout) = 5 + NLayers
        /\ stdout[1] = <<"Static network with", "softlif">>
        /\ stdout[2][1] = "Static error" /\ stdout[2][2] = "softlif"
        /\ stdout[3] = <<"Static network with", "lif">>
        /\ stdout[4][1] = "Static error" /\ stdout[4][2] = "lif"
        /\ \A i \in 1..NLayers :
             stdout[4 + i][1] = "Layer" /\ stdout[4 + i][2] = "lif"
        /\ stdout[5 + NLayers][1] = "Classifier"
        /\ stdout[5 + NLayers][2] = "lif"
        /\ ~Printed("Layer", "softlif")
        /\ events = << <<"np.load", "">>, <<"mnist.load", "">>,
                       <<"_propup_static", "softlif">>, <<"_propup_static", "lif">>,
                       <<"_propup_static", "lif">> >>
                    \o [i \in 1..NLayers |-> <<"plt.hist", "lif">>]
                    \o << <<"plt.show", "">> >>

\* the static pipeline ran to its end on a network with a hidden layer
C8_Witness ==
    /\ StaticDone
    /\ NLayers >= 1
    /\ Printed("Layer", "lif")

====
